---- MODULE Spec2Model ----
(***************************************************************************)
(* MathMaster (adrmarabuco/mathgame): the answer comparator, the scoring   *)
(* calculator, the streak tracker, the adaptive difficulty controller and  *)
(* the timed-challenge loop of src/game.py, with the input layer of        *)
(* src/cli.py and the canonical-answer formats of src/questions.py and     *)
(* src/operations.py; the standalone loop of src/main.py; the high-score   *)
(* table of src/high_scores.py.                                            *)
(*                                                                         *)
(* A Python str is a sequence of one-character strings.  Time is counted   *)
(* in whole seconds.  A float is carried as the exact decimal value of its *)
(* literal together with the information whether a double holds that value *)
(* exactly (its reduced denominator is a power of two).  An integer of     *)
(* 2^30 or more is carried in two limbs, rounded to the 53 bits of a double *)
(* where a float holds it.                                                  *)
(***************************************************************************)
EXTENDS Integers, Sequences, FiniteSets, TLC

VARIABLES
    \* MathGame fields (src/game.py:24-33)
    difficulty, adaptive_difficulty, results, streak_count, total_score,
    time_limit,
    \* play_timed_challenge locals (src/game.py:177-230)
    pc, round_num, clock, round,
    \* the latest call of a MathGame method and what it returned
    last_call,
    \* one call of check_answer: its arguments and its outcome
    user_answer, correct_answer, verdict,
    \* HighScoreManager.scores and the content of its scores_file
    \* (src/high_scores.py:12-14)
    scores, scores_file

game_vars == <<difficulty, adaptive_difficulty, results, streak_count,
               total_score, time_limit>>
loop_vars == <<pc, round_num, clock, round>>
check_vars == <<user_answer, correct_answer, verdict>>
score_vars == <<scores, scores_file>>
vars == <<difficulty, adaptive_difficulty, results, streak_count, total_score,
          time_limit, pc, round_num, clock, round, last_call,
          user_answer, correct_answer, verdict, scores, scores_file>>

---------------------------------------------------------------------------
(* Python strings                                                          *)

\* The value None (not a str: no sequence of characters equals it).
None == <<"<None>">>

DigitChars == <<"0", "1", "2", "3", "4", "5", "6", "7", "8", "9">>

\* str(x) of a str or of None
PyStr(x) == IF x = None THEN <<"N", "o", "n", "e">> ELSE x

IsSpace(c) == c = " "

RECURSIVE LStrip(_)
LStrip(s) == IF s # <<>> /\ IsSpace(Head(s)) THEN LStrip(Tail(s)) ELSE s

RECURSIVE RStrip(_)
RStrip(s) ==
    IF s # <<>> /\ IsSpace(s[Len(s)])
    THEN RStrip(SubSeq(s, 1, Len(s) - 1))
    ELSE s

\* str.strip()
Strip(s) == RStrip(LStrip(s))

\* c in s
Contains(s, c) == \E i \in 1..Len(s) : s[i] = c

\* s.split(sep)
RECURSIVE Split(_, _)
Split(s, sep) ==
    IF Contains(s, sep)
    THEN LET i == CHOOSE k \in 1..Len(s) :
                      s[k] = sep /\ \A j \in 1..(k - 1) : s[j] # sep
         IN  <<SubSeq(s, 1, i - 1)>> \o Split(SubSeq(s, i + 1, Len(s)), sep)
    ELSE <<s>>

IsDigit(c) == \E i \in 1..10 : DigitChars[i] = c
DigitVal(c) == (CHOOSE i \in 1..10 : DigitChars[i] = c) - 1
AllDigits(s) == s # <<>> /\ \A i \in 1..Len(s) : IsDigit(s[i])

RECURSIVE DigitsVal(_)
DigitsVal(s) ==
    IF s = <<>> THEN 0
    ELSE 10 * DigitsVal(SubSeq(s, 1, Len(s) - 1)) + DigitVal(s[Len(s)])

RECURSIVE NatStr(_)
NatStr(n) ==
    IF n < 10 THEN <<DigitChars[n + 1]>>
    ELSE NatStr(n \div 10) \o <<DigitChars[(n % 10) + 1]>>

\* str(n) of an int
IntStr(n) == IF n < 0 THEN <<"-">> \o NatStr(-n) ELSE NatStr(n)

\* f"{p}/{q}"
FracStr(p, q) == IntStr(p) \o <<"/">> \o IntStr(q)

---------------------------------------------------------------------------
(* Python numbers.  A computation yields a value or raises.                *)

Ok(v) == [exc |-> "", val |-> v]
Raise(e) == [exc |-> e, val |-> 0]

Abs(n) == IF n < 0 THEN -n ELSE n
Min(a, b) == IF a < b THEN a ELSE b
Max(a, b) == IF a > b THEN a ELSE b

RECURSIVE GCD(_, _)
GCD(a, b) == IF b = 0 THEN a ELSE GCD(b, a % b)

RECURSIVE Pow10(_)
Pow10(k) == IF k = 0 THEN 1 ELSE 10 * Pow10(k - 1)

RECURSIVE Pow2(_)
Pow2(k) == IF k = 0 THEN 1 ELSE 2 * Pow2(k - 1)

RECURSIVE IsPow2(_)
IsPow2(n) == IF n = 1 THEN TRUE ELSE IF n % 2 # 0 THEN FALSE ELSE IsPow2(n \div 2)

\* n/d in lowest terms with a positive denominator (d # 0, g their gcd)
Reduced(n, d, g) ==
    IF d < 0 THEN [num |-> -(n \div g), den |-> -(d \div g)]
    ELSE [num |-> n \div g, den |-> d \div g]

Rat(n, d) == Reduced(n, d, GCD(Abs(n), Abs(d)))

\* The sign a numeric literal starts with, and the literal without it
SignOf(t) == IF t # <<>> /\ Head(t) = "-" THEN -1 ELSE 1
Unsigned(t) == IF t # <<>> /\ Head(t) \in {"-", "+"} THEN Tail(t) ELSE t

IntOfDigits(sgn, body) ==
    IF AllDigits(body) THEN Ok(sgn * DigitsVal(body)) ELSE Raise("ValueError")

\* int(s): surrounding whitespace, an optional sign, one or more digits.
PyIntStripped(t) == IntOfDigits(SignOf(t), Unsigned(t))
PyInt(s) == PyIntStripped(Strip(s))

\* A float: num/den, or for an integer of magnitude 2^30 or more the limbs
\* big * LimbBase + num with the sign on big.
Fin(r) == [kind |-> "fin", num |-> r.num, den |-> r.den, big |-> 0]
Inf(sgn) == [kind |-> "inf", num |-> sgn, den |-> 1, big |-> 0]
NaN == [kind |-> "nan", num |-> 0, den |-> 1, big |-> 0]

LimbBase == Pow2(26)

\* The limbs <<hi, lo>> of a digit string's value hi * LimbBase + lo
LimbStep(limbs, dgt) ==
    <<10 * limbs[1] + (10 * limbs[2] + dgt) \div LimbBase,
      (10 * limbs[2] + dgt) % LimbBase>>

RECURSIVE Limbs(_)
Limbs(s) ==
    IF s = <<>> THEN <<0, 0>>
    ELSE LimbStep(Limbs(SubSeq(s, 1, Len(s) - 1)), DigitVal(s[Len(s)]))

\* The bits an integer with high limb hi has beyond the 53 of a double
RECURSIVE ExcessBits(_)
ExcessBits(hi) == IF hi < Pow2(27) THEN 0 ELSE 1 + ExcessBits(hi \div 2)

\* lo rounded to a multiple of step, ties to the even multiple
RoundedLow(lo, step) ==
    IF 2 * (lo % step) < step THEN lo - (lo % step)
    ELSE IF 2 * (lo % step) > step THEN lo - (lo % step) + step
    ELSE IF ((lo - (lo % step)) \div step) % 2 = 0 THEN lo - (lo % step)
    ELSE lo - (lo % step) + step

Carried(hi, lo) == IF lo = LimbBase THEN <<hi + 1, 0>> ELSE <<hi, lo>>

\* The double nearest to the integer hi * LimbBase + lo
RoundLimbs(hi, lo) == Carried(hi, RoundedLow(lo, Pow2(ExcessBits(hi))))

FloatOfLimbs(sgn, limbs) ==
    IF limbs[1] < Pow2(4)
    THEN Fin(Rat(sgn * (limbs[1] * LimbBase + limbs[2]), 1))
    ELSE [kind |-> "fin", num |-> limbs[2], den |-> 1, big |-> sgn * limbs[1]]

\* float of a literal of digits only, of any length
FloatOfDigits(sgn, ip) ==
    IF Len(ip) <= 8 THEN Fin(Rat(sgn * DigitsVal(ip), 1))
    ELSE FloatOfLimbs(sgn, RoundLimbs(Limbs(ip)[1], Limbs(ip)[2]))

\* Digits, at most one point, and a digit on one side of it.
DecimalOf(sgn, ip, fp, nparts) ==
    IF /\ nparts <= 2
       /\ ip \o fp # <<>>
       /\ \A i \in 1..Len(ip) : IsDigit(ip[i])
       /\ \A i \in 1..Len(fp) : IsDigit(fp[i])
    THEN IF fp = <<>> THEN Ok(FloatOfDigits(sgn, ip))
         ELSE Ok(Fin(Rat(sgn * DigitsVal(ip \o fp), Pow10(Len(fp)))))
    ELSE Raise("ValueError")

DecimalOfParts(sgn, parts) ==
    DecimalOf(sgn, parts[1], IF Len(parts) = 2 THEN parts[2] ELSE <<>>, Len(parts))

FloatOf(sgn, body) ==
    IF body \in {<<"i", "n", "f">>, <<"i", "n", "f", "i", "n", "i", "t", "y">>}
    THEN Ok(Inf(sgn))
    ELSE IF body = <<"n", "a", "n">> THEN Ok(NaN)
    ELSE DecimalOfParts(sgn, Split(body, "."))

\* float(s): surrounding whitespace, an optional sign, then inf, infinity, nan
\* or a decimal literal.
PyFloatStripped(t) == FloatOf(SignOf(t), Unsigned(t))
PyFloat(s) == PyFloatStripped(Strip(s))

\* fractions.Fraction(n, d) of two ints, with a zero denominator accepted as 1
PyFraction2ZeroAsOne(n, d) ==
    IF d = 0 THEN Ok([num |-> n, den |-> 1, exact |-> TRUE, big |-> 0])
    ELSE Ok([num |-> Rat(n, d).num, den |-> Rat(n, d).den, exact |-> TRUE,
             big |-> 0])

\* The pair (n, d) kept as written, not reduced
PyFraction2Unreduced(n, d) ==
    IF d = 0 THEN Raise("ZeroDivisionError")
    ELSE Ok([num |-> n, den |-> d, exact |-> TRUE, big |-> 0])

\* fractions.Fraction(n, d) of two ints
PyFraction2(n, d) ==
    IF d = 0 THEN Raise("ZeroDivisionError")
    ELSE Ok([num |-> Rat(n, d).num, den |-> Rat(n, d).den, exact |-> TRUE,
             big |-> 0])

FractionOfStrParts(sgn, parts) ==
    IF Len(parts) = 2 /\ AllDigits(parts[1]) /\ AllDigits(parts[2])
    THEN PyFraction2(sgn * DigitsVal(parts[1]), DigitsVal(parts[2]))
    ELSE Raise("ValueError")

\* fractions.Fraction(s) of a str that holds a '/': an optional sign, digits,
\* '/', digits; nothing else between them.
PyFractionStripped(t) == FractionOfStrParts(SignOf(t), Split(Unsigned(t), "/"))
PyFractionStr(s) == PyFractionStripped(Strip(s))

\* fractions.Fraction(x) of a float: the double's own value.  A literal whose
\* reduced denominator is no power of two is held rounded, and the Fraction is
\* that rounded double (exact = FALSE).
PyFractionFloat(x) ==
    IF x.kind = "nan" THEN Raise("ValueError")
    ELSE IF x.kind = "inf" THEN Raise("OverflowError")
    ELSE Ok([num |-> x.num, den |-> x.den, exact |-> IsPow2(x.den),
             big |-> x.big])

\* Fraction == Fraction: numerators and denominators of the reduced forms.
\* Two rounded doubles are equal when their literals denote the same value; a
\* rounded double equals no fraction of small ints.
FractionEq(a, b) ==
    a.exact = b.exact /\ a.num = b.num /\ a.den = b.den /\ a.big = b.big

\* float / float, of operands below 2^30 in magnitude
PyFloatDiv(x, y) ==
    IF y.kind = "fin" /\ y.num = 0 THEN Raise("ZeroDivisionError")
    ELSE IF x.kind = "nan" \/ y.kind = "nan" THEN Ok(NaN)
    ELSE IF x.kind = "inf" /\ y.kind = "inf" THEN Ok(NaN)
    ELSE IF x.kind = "inf" THEN Ok(Inf(x.num * (IF y.num < 0 THEN -1 ELSE 1)))
    ELSE IF y.kind = "inf" THEN Ok(Fin(Rat(0, 1)))
    ELSE Ok(Fin(Rat(x.num * y.den, x.den * y.num)))

\* abs(x - y) < 0.001
WithinTolerance(x, y) ==
    /\ x.kind = "fin"
    /\ y.kind = "fin"
    /\ IF x.big # 0 \/ y.big # 0
       THEN x.big = y.big /\ x.num = y.num
       ELSE 1000 * Abs(x.num * y.den - y.num * x.den) < x.den * y.den

---------------------------------------------------------------------------
(* MathGame.check_answer (src/game.py:236-300)                             *)

\* How a block of check_answer ends: it returns v, falls through, or raises.
Return(b) == [k |-> "return", v |-> b, exc |-> ""]
Pass == [k |-> "pass", v |-> FALSE, exc |-> ""]
Throw(e) == [k |-> "raise", v |-> FALSE, exc |-> e]
Pending == [k |-> "pending", v |-> FALSE, exc |-> ""]

\* except (ValueError, ZeroDivisionError): pass
InnerCatches(e) == e \in {"ValueError", "ZeroDivisionError"}

Guarded(flow) == IF flow.k = "raise" /\ InnerCatches(flow.exc) THEN Pass ELSE flow

\* A handler that catches only what the inner handlers name
OuterCatchesNarrow(e) == e \in {"ValueError", "ZeroDivisionError"}

\* except Exception as e: every exception a step of the body can raise
OuterCatches(e) ==
    e \in {"ValueError", "ZeroDivisionError", "OverflowError", "UnboundLocalError"}

\* user_parts and correct_parts are assigned only under this condition.
PartsBound(user_str, correct_str) ==
    Contains(user_str, "/") /\ Contains(correct_str, "/")

\* Fraction(int(parts[0]), int(parts[1])), evaluated left to right
FractionOfInts(n, d) ==
    IF n.exc # "" THEN n
    ELSE IF d.exc # "" THEN d
    ELSE PyFraction2(n.val, d.val)

FractionOfParts(parts) == FractionOfInts(PyInt(parts[1]), PyInt(parts[2]))

\* return user_frac == correct_frac, the user's side computed first
CompareFractions(user_frac, correct_frac) ==
    IF user_frac.exc # "" THEN Throw(user_frac.exc)
    ELSE IF correct_frac.exc # "" THEN Throw(correct_frac.exc)
    ELSE Return(FractionEq(user_frac.val, correct_frac.val))

\* Lines 256-266: both hold a '/' and split in two: Fraction(int, int) each,
\* compared exactly.
FractionStage(user_str, correct_str) ==
    IF /\ PartsBound(user_str, correct_str)
       /\ Len(Split(user_str, "/")) = 2
       /\ Len(Split(correct_str, "/")) = 2
    THEN CompareFractions(FractionOfParts(Split(user_str, "/")),
                          FractionOfParts(Split(correct_str, "/")))
    ELSE Pass

FractionOfFloat(f) == IF f.exc # "" THEN f ELSE PyFractionFloat(f.val)

\* Lines 271-274 and 277-280: Fraction(s) of a string with a '/', else
\* Fraction(float(s)).
ToFraction(s) ==
    IF Contains(s, "/") THEN PyFractionStr(s) ELSE FractionOfFloat(PyFloat(s))

\* Lines 269-284: both sides as Fractions, compared exactly.
NumericStage(user_str, correct_str) ==
    CompareFractions(ToFraction(user_str), ToFraction(correct_str))

\* float(parts[0]) / float(parts[1]), evaluated left to right
QuotientOf(a, b) ==
    IF a.exc # "" THEN a
    ELSE IF b.exc # "" THEN b
    ELSE PyFloatDiv(a.val, b.val)

QuotientOfParts(parts) == QuotientOf(PyFloat(parts[1]), PyFloat(parts[2]))

\* Lines 288-289: float(s), or float(parts[0]) / float(parts[1]) of the parts
\* the fraction stage split (a name that is unbound when it split nothing).
ToFloat(s, bound) ==
    IF ~Contains(s, "/") THEN PyFloat(s)
    ELSE IF ~bound THEN Raise("UnboundLocalError")
    ELSE QuotientOfParts(Split(s, "/"))

\* return abs(user_float - correct_float) < 0.001
CompareFloats(user_float, correct_float) ==
    IF user_float.exc # "" THEN Throw(user_float.exc)
    ELSE IF correct_float.exc # "" THEN Throw(correct_float.exc)
    ELSE Return(WithinTolerance(user_float.val, correct_float.val))

\* Lines 287-293: both sides as floats, compared within 0.001.
FloatStage(user_str, correct_str) ==
    CompareFloats(ToFloat(user_str, PartsBound(user_str, correct_str)),
                  ToFloat(correct_str, PartsBound(user_str, correct_str)))

OrElse(flow, next) == IF flow.k # "pass" THEN flow ELSE next

\* Lines 252-293: the three stages in order, each under its own handler.
CompareBody(user_str, correct_str) ==
    OrElse(Guarded(FractionStage(user_str, correct_str)),
           OrElse(Guarded(NumericStage(user_str, correct_str)),
                  Guarded(FloatStage(user_str, correct_str))))

\* Lines 295-300: what the body returned, or the final string comparison
Outcome(body, fallback) ==
    IF body.k = "return" THEN body
    ELSE IF body.k = "raise" /\ ~OuterCatches(body.exc) THEN body
    ELSE Return(fallback)

\* Lines 248-300 on the two stripped strings
CompareStrings(user_str, correct_str) ==
    IF user_str = correct_str THEN Return(TRUE)
    ELSE Outcome(CompareBody(user_str, correct_str), user_str = correct_str)

CheckAnswer(ua, ca) ==
    IF ua = None THEN Return(FALSE)
    ELSE CompareStrings(Strip(PyStr(ua)), Strip(PyStr(ca)))

---------------------------------------------------------------------------
(* The answers check_answer is applied to                                  *)

MaxLen == 3
MaxInt == 2
MaxFracDigits == 4

Alphabet == {"0", "1", "2", "/", ".", "-", " ", "x"}
DecimalDigits == {"0", "1", "5"}

\* Every string over Alphabet of at most MaxLen characters (the empty one too).
ShortStrings == UNION {[1..k -> Alphabet] : k \in 0..MaxLen}

Ints == (-MaxInt)..MaxInt
NonZero == Ints \ {0}

\* f"{p}/{q}", zero numerators and denominators included
FractionStrings == {FracStr(p, q) : p \in Ints, q \in Ints}

\* f"{p*r}/{q*r}" of non-zero p, q, r
ScaledFractionStrings ==
    {FracStr(pq[1] * r, pq[2] * r) : pq \in NonZero \X NonZero, r \in NonZero}

\* Three integers between two '/'
MultiSlashStrings ==
    {FracStr(pq[1], pq[2]) \o <<"/">> \o IntStr(r) :
        pq \in (1..MaxInt) \X (0..MaxInt), r \in 0..MaxInt}

\* "0.d...d" and "1.d...d" with at most MaxFracDigits decimals
DecimalStrings ==
    {IntStr(w) \o <<".">> \o f :
        w \in 0..1, f \in UNION {[1..k -> DecimalDigits] : k \in 1..MaxFracDigits}}

SpecialStrings ==
    { <<"i", "n", "f">>, <<"-", "i", "n", "f">>, <<"n", "a", "n">>,
      <<"1", "/", "i", "n", "f">>, <<"1", ".", "5", "/", "3">>,
      <<"1", " ", "/", " ", "2">>, <<" ", "1", "/", "2", " ">>,
      <<"1", "/", "1", "0">>, <<"2", "/", "2", "0">> }

\* str(a) of the integers a around 2^53 = 9007199254740992, and of -a
BigIntStrings ==
    LET head == <<"9", "0", "0", "7", "1", "9", "9", "2", "5", "4", "7", "4",
                  "0", "9", "9">>
    IN  {sgn \o head \o <<d>> :
            sgn \in {<<>>, <<"-">>}, d \in {"1", "2", "3", "4", "5", "6"}}

\* What the question generators return: str(int) (src/questions.py:120,144),
\* a reduced "n/d" with d > 1 (src/operations.py:57-60), str(round(x, 2))
\* (src/questions.py:147, src/operations.py:134-136).
CanonicalAnswers ==
    {IntStr(n) : n \in Ints}
    \cup {FracStr(nd[1], nd[2]) :
             nd \in {x \in NonZero \X (2..(MaxInt + 2)) : GCD(Abs(x[1]), x[2]) = 1}}
    \cup { <<"0", ".", "5">>, <<"0", ".", "2", "5">>, <<"0", ".", "3", "3">>,
           <<"1", ".", "5">>, <<"0", ".", "1">>, <<"1", "/", "1", "0">> }

CheckInputs ==
    ((ShortStrings \cup {None}) \X CanonicalAnswers)
    \cup ((CanonicalAnswers \cup SpecialStrings) \X (ShortStrings \cup {None}))
    \cup ((FractionStrings \cup MultiSlashStrings \cup SpecialStrings
             \cup CanonicalAnswers)
          \X (FractionStrings \cup ScaledFractionStrings \cup CanonicalAnswers))
    \cup (DecimalStrings \X CanonicalAnswers)
    \cup (BigIntStrings \X (BigIntStrings \cup {IntStr(n) : n \in Ints}))
    \cup ({IntStr(n) : n \in Ints} \X BigIntStrings)


---------------------------------------------------------------------------
(* Scoring, streak and adaptive difficulty (src/game.py:11-17, 61-131)     *)

POINTS_BASE == 100
POINTS_SPEED_BONUS_THRESHOLD == 5
POINTS_SPEED_BONUS == 50
\* [1, 1.5, 2.5], in tenths
POINTS_DIFFICULTY_MULTIPLIER == <<10, 15, 25>>
STREAK_BONUS_THRESHOLD == 3
STREAK_BONUS == 25

\* The record a round appends to results: the fields the engine reads.
RoundResult(is_correct, time_taken, score) ==
    [correct |-> is_correct, time_taken |-> time_taken, score |-> score]

\* The whole speed bonus for every answer under the threshold
CorrectScoreFullSpeedBonus(time_taken, d, s) ==
    LET th == POINTS_SPEED_BONUS_THRESHOLD
        base == POINTS_BASE * POINTS_DIFFICULTY_MULTIPLIER[d] * th
        speed == IF time_taken < th THEN 10 * POINTS_SPEED_BONUS * th ELSE 0
        streak == IF s >= STREAK_BONUS_THRESHOLD
                  THEN STREAK_BONUS * (10 + (s - STREAK_BONUS_THRESHOLD)) * th
                  ELSE 0
    IN  (base + speed + streak) \div (10 * th)

\* Lines 68-80: the score of a correct answer at difficulty d with
\* streak_count s.  The float sum is carried exactly, over the denominator
\* 10 * POINTS_SPEED_BONUS_THRESHOLD, and int() truncates it.
CorrectScore(time_taken, d, s) ==
    LET th == POINTS_SPEED_BONUS_THRESHOLD
        base == POINTS_BASE * POINTS_DIFFICULTY_MULTIPLIER[d] * th
        speed == IF time_taken < th
                 THEN 10 * POINTS_SPEED_BONUS * (th - time_taken)
                 ELSE 0
        streak == IF s >= STREAK_BONUS_THRESHOLD
                  THEN STREAK_BONUS * (10 + (s - STREAK_BONUS_THRESHOLD)) * th
                  ELSE 0
    IN  (base + speed + streak) \div (10 * th)

\* The score computed whatever the verdict
ScoreOfAnyAnswer(is_correct, time_taken, d, s) == CorrectScore(time_taken, d, s)

\* calculate_score(is_correct, time_taken) of a game at difficulty d with
\* streak_count s (lines 61-80)
ScoreOf(is_correct, time_taken, d, s) ==
    IF ~is_correct THEN 0 ELSE CorrectScore(time_taken, d, s)

\* self.calculate_score(is_correct, time_taken)
CalculateScore(is_correct, time_taken) ==
    ScoreOf(is_correct, time_taken, difficulty, streak_count)

RECURSIVE SumTime(_)
SumTime(rs) == IF rs = <<>> THEN 0 ELSE Head(rs).time_taken + SumTime(Tail(rs))

RECURSIVE SumScore(_)
SumScore(rs) == IF rs = <<>> THEN 0 ELSE Head(rs).score + SumScore(Tail(rs))

CorrectCount(rs) == Cardinality({i \in 1..Len(rs) : rs[i].correct})

\* The first three results instead of the last three
RecentOldest(rs) == SubSeq(rs, 1, Min(3, Len(rs)))

\* results[-3:]
Recent(rs) == SubSeq(rs, Max(1, Len(rs) - 2), Len(rs))

\* Lines 100-103, on the window's correct count and time sum.  avg_time < 5.0
\* is sum < 5 * len.
AdjustBy(correct_count, sum_time, len, d) ==
    IF correct_count = 3 /\ sum_time < 5 * len THEN Min(3, d + 1)
    ELSE IF correct_count <= 1 THEN Max(1, d - 1)
    ELSE d

\* The decision taken on a window of any length
AdjustWindowAnyLength(recent_results, d) ==
    AdjustBy(CorrectCount(recent_results), SumTime(recent_results),
             Len(recent_results), d)

\* Lines 90-103 on recent_results
AdjustWindow(recent_results, d) ==
    IF Len(recent_results) < 3 THEN d
    ELSE AdjustBy(CorrectCount(recent_results), SumTime(recent_results),
                  Len(recent_results), d)

\* The difficulty adjust_difficulty leaves (lines 86-103)
AdjustedDifficulty(adaptive, rs, d) ==
    IF ~adaptive THEN d ELSE AdjustWindow(Recent(rs), d)

\* A message after every decision, changed or not
DifficultyMessageAlways(old_difficulty, new_difficulty) ==
    IF new_difficulty >= old_difficulty THEN "increased" ELSE "adjusted"

\* What adjust_difficulty returns (lines 106-113)
DifficultyMessage(old_difficulty, new_difficulty) ==
    IF old_difficulty # new_difficulty
    THEN IF new_difficulty > old_difficulty THEN "increased" ELSE "adjusted"
    ELSE "None"

\* A wrong answer leaving the streak as it is
UpdatedStreakNoReset(s, is_correct) == IF is_correct THEN s + 1 ELSE s

\* The streak_count update_streak leaves (lines 121-129)
UpdatedStreak(s, is_correct) == IF is_correct THEN s + 1 ELSE 0

\* The milestone announced at every streak from the threshold on
StreakMessageFromThreshold(s, is_correct) ==
    IF is_correct
    THEN IF s + 1 >= STREAK_BONUS_THRESHOLD THEN "ANSWER STREAK" ELSE "None"
    ELSE IF s >= STREAK_BONUS_THRESHOLD THEN "Streak broken" ELSE "None"

\* What update_streak returns (lines 119-131)
StreakMessage(s, is_correct) ==
    IF is_correct
    THEN IF s + 1 >= STREAK_BONUS_THRESHOLD /\ (s + 1) % STREAK_BONUS_THRESHOLD = 0
         THEN "ANSWER STREAK"
         ELSE "None"
    ELSE IF s >= STREAK_BONUS_THRESHOLD THEN "Streak broken" ELSE "None"

\* The quotients taken whatever the number of results
GameStatsDividing(rs) ==
    [total_rounds |-> Len(rs), correct_count |-> CorrectCount(rs),
     accuracy |-> <<CorrectCount(rs) * 100, Len(rs)>>,
     avg_time |-> <<SumTime(rs), Len(rs)>>,
     total_score |-> SumScore(rs)]

\* get_game_stats (lines 133-158); accuracy and avg_time as exact quotients
GameStats(rs) ==
    IF rs = <<>>
    THEN [total_rounds |-> 0, correct_count |-> 0, accuracy |-> <<0, 1>>,
          avg_time |-> <<0, 1>>, total_score |-> 0]
    ELSE [total_rounds |-> Len(rs), correct_count |-> CorrectCount(rs),
          accuracy |-> <<CorrectCount(rs) * 100, Len(rs)>>,
          avg_time |-> <<SumTime(rs), Len(rs)>>,
          total_score |-> SumScore(rs)]


---------------------------------------------------------------------------
(* High scores (src/high_scores.py): one bucket per game mode, operation   *)
(* name and difficulty, the last game played and the overall statistics,   *)
(* kept in memory and saved to a file.                                     *)

GameModes == {"normal_mode", "timed_mode"}

\* get_operation_name(operation_type).lower().replace(" ", "_")
\* (src/questions.py:29-42, src/high_scores.py:44, 83): the names of the
\* operation types 1 to 9, and "unknown" for every other type
OperationNames ==
    <<"addition", "subtraction", "multiplication", "division", "fractions",
      "percentages", "exponents", "arrays", "mixed_challenge">>

OperationName(operation_type) ==
    IF operation_type \in 1..Len(OperationNames)
    THEN OperationNames[operation_type]
    ELSE "unknown"

\* {"score": 0, "date": "", "accuracy": 0, "avg_time": 0} (lines 47-52,
\* 96-101); accuracy and avg_time are quotients, as in get_game_stats
EmptyBucket ==
    [score |-> 0, date |-> "", accuracy |-> <<0, 1>>, avg_time |-> <<0, 1>>]

\* The bucket scores[game_mode][op_name][f"difficulty_{difficulty}"]
BucketKey(game_mode, op_name, d) == <<game_mode, op_name, d>>

\* _create_default_scores (lines 28-54).  last_played is the empty dict: a
\* record with no game in it.
NoLastPlayed == [operation |-> "", difficulty |-> 0, mode |-> "", date |-> ""]

DefaultScores ==
    [buckets |->
         [k \in { BucketKey(m, OperationName(op), d) :
                      m \in GameModes, op \in 1..9, d \in 1..3 }
             |-> EmptyBucket],
     last_played |-> NoLastPlayed,
     stats |-> [total_problems_solved |-> 0, total_time_played |-> 0,
                games_played |-> 0]]

\* The scores file does not exist.
NoFile == [exists |-> FALSE, content |-> <<>>]

\* No HighScoreManager has been created.
NoManager == <<>>

\* json.dump(self.scores, f) done (lines 59-61)
Saved(sc) == [exists |-> TRUE, content |-> sc]

\* stats.get('average_difficulty', 1) (line 87)
AverageDifficulty(stats) ==
    IF "average_difficulty" \in DOMAIN stats THEN stats.average_difficulty
    ELSE 1

\* Lines 86-87: the difficulty of the bucket
BucketDifficulty(d, stats) == IF d > 3 THEN AverageDifficulty(stats) ELSE d

\* Lines 92-101 and 104: the bucket, created empty when it is not there
BucketOf(buckets, key) ==
    IF key \in DOMAIN buckets THEN buckets[key] ELSE EmptyBucket

\* An equal score taken as a high score too
IsHighScoreOrEqual(total, prev_high_score) == total >= prev_high_score

\* is_high_score = stats["total_score"] > prev_high_score (line 105)
IsHighScore(total, prev_high_score) == total > prev_high_score

\* Lines 107-114: the bucket after the update
UpdatedBucket(before, stats, now) ==
    IF IsHighScore(stats.total_score, before.score)
    THEN [score |-> stats.total_score, date |-> now,
          accuracy |-> stats.accuracy, avg_time |-> stats.avg_time]
    ELSE before

\* Lines 92-114: the buckets after the update of the one at key
UpdatedBuckets(buckets, key, stats, now) ==
    [k \in DOMAIN buckets \cup {key} |->
        IF k = key THEN UpdatedBucket(BucketOf(buckets, key), stats, now)
        ELSE buckets[k]]

\* stats["avg_time"] * stats["total_rounds"] (line 128), avg_time being the
\* quotient of the summed time by the number of rounds
TimePlayed(stats) == (stats.avg_time[1] * stats.total_rounds) \div stats.avg_time[2]

\* Lines 127-129
UpdatedStats(st, stats) ==
    [total_problems_solved |-> st.total_problems_solved + stats.total_rounds,
     total_time_played |-> st.total_time_played + TimePlayed(stats),
     games_played |-> st.games_played + 1]

\* self.scores after line 114: the bucket only
WithBucket(sc, key, stats, now) ==
    [sc EXCEPT !.buckets = UpdatedBuckets(sc.buckets, key, stats, now)]

\* self.scores after line 129
WithGame(sc, game_mode, op_name, d, stats, now) ==
    [buckets |-> UpdatedBuckets(sc.buckets, BucketKey(game_mode, op_name, d),
                                stats, now),
     last_played |-> [operation |-> op_name, difficulty |-> d,
                      mode |-> game_mode, date |-> now],
     stats |-> UpdatedStats(sc.stats, stats)]

\* _save_scores (lines 56-64) at line 117, for a high score only, and at
\* line 132; written is whether each of the two went through (an IOError
\* is reported and the file left as it was).
FileAfter(file, is_high_score, at_117, at_132, written) ==
    IF written[2] THEN Saved(at_132)
    ELSE IF is_high_score /\ written[1] THEN Saved(at_117)
    ELSE file

---------------------------------------------------------------------------
(* The session: MathGame's methods called one after the other, and         *)
(* play_timed_challenge running round by round (src/game.py:24-234)        *)

MaxResults == 3
MaxStreak == 6
MaxRounds == 4

\* time_taken of a round, in seconds
Times == {1, 7}
\* time_taken handed to calculate_score on its own
ScoreTimes == {0, 10}
\* The score field of a result handed to add_result by a caller, who is free
\* to choose it
CallerScores == {100}
\* difficulty_choice: the menu's 1-3, and 4 for adaptive
DifficultyChoices == 1..4
\* time_limit = 60 (src/game.py:33, 35)
TimeLimits == {60}
\* Seconds spent on the start screen before the first round (line 181)
StartDelays == {0, 55, 60}

TIME_UP == <<"_", "_", "T", "I", "M", "E", "_", "U", "P", "_", "_">>
QUIT == <<"_", "_", "Q", "U", "I", "T", "_", "_">>

\* (user_answer, correct_answer) of a round: what get_answer_timed returns
\* (src/cli.py:207-225: the stripped line, None for an empty line, "__QUIT__")
\* or another ui_handler's "__TIME_UP__", and the question's canonical answer.
RoundAnswers ==
    { << <<"2">>, <<"2">> >>, << <<"3">>, <<"2">> >>, << None, <<"2">> >>,
      << <<"2", "/", "4">>, <<"1", "/", "2">> >>,
      << <<"1", "/", "2", "/", "3">>, <<"1", "/", "3">> >>,
      << QUIT, <<"2">> >>, << TIME_UP, <<"2">> >> }

InputKind(ua) ==
    IF ua = None THEN "empty"
    ELSE IF ua = QUIT THEN "quit"
    ELSE IF ua = TIME_UP THEN "time_up"
    ELSE "answer"

\* The locals of a round of play_timed_challenge, and what the round did
NoRound ==
    [num |-> 0, difficulty |-> 0, streak_used |-> 0, input |-> "none",
     correct |-> FALSE, time_taken |-> 0, score |-> 0, late |-> FALSE,
     streak_message |-> "None", difficulty_message |-> "None",
     adjusted |-> FALSE]

Call(op, arg, ret) == [op |-> op, arg |-> arg, ret |-> ret]

\* MathGame() (lines 24-33); no round, no check_answer call yet
Init ==
    /\ difficulty = 1
    /\ adaptive_difficulty = FALSE
    /\ results = <<>>
    /\ streak_count = 0
    /\ total_score = 0
    /\ time_limit = 60
    /\ pc = "idle"
    /\ round_num = 0
    /\ clock = 0
    /\ round = NoRound
    /\ last_call = Call("__init__", 0, "None")
    /\ user_answer = None
    /\ correct_answer = <<>>
    /\ verdict = Pending
    /\ scores = NoManager
    /\ scores_file = NoFile

\* A method is called between two sessions of play_timed_challenge, whose
\* locals are gone.
Idle ==
    /\ pc = "idle"
    /\ round_num' = 0
    /\ clock' = 0
    /\ round' = NoRound
    /\ UNCHANGED <<pc, check_vars, score_vars>>

\* A session started with the streak of the one before
SessionResetKeepsStreak ==
    [results |-> <<>>, streak_count |-> streak_count, total_score |-> 0]

\* The reset at the start of a session (lines 41-43 and 173-175)
SessionReset == [results |-> <<>>, streak_count |-> 0, total_score |-> 0]

\* The choice stored as it is
SetupDifficultyStoresChoice(difficulty_choice) == difficulty_choice

\* The difficulty setup_game stores for a choice (lines 48-53)
SetupDifficulty(difficulty_choice) ==
    IF difficulty_choice < 4 THEN difficulty_choice ELSE 1

\* setup_game (lines 35-53)
SetupGame(difficulty_choice, limit) ==
    /\ Idle
    /\ results' = SessionReset.results
    /\ streak_count' = SessionReset.streak_count
    /\ total_score' = SessionReset.total_score
    /\ time_limit' = limit
    /\ difficulty' = SetupDifficulty(difficulty_choice)
    /\ adaptive_difficulty' = ~(difficulty_choice < 4)
    /\ last_call' = Call("setup_game", difficulty_choice, "None")

\* The score added only for a correct round
AddedScoreCorrectOnly(total, round_result) ==
    IF round_result.correct THEN total + round_result.score ELSE total

\* total_score after add_result (line 165)
AddedScore(total, round_result) == total + round_result.score

\* The result put in front of the earlier ones
Prepended(rs, round_result) == <<round_result>> \o rs

\* self.results.append(round_result) (line 164)
Appended(rs, round_result) == Append(rs, round_result)

\* add_result (lines 160-165)
AddResult(round_result) ==
    /\ Idle
    /\ Len(results) < MaxResults
    /\ results' = Appended(results, round_result)
    /\ total_score' = AddedScore(total_score, round_result)
    /\ last_call' = Call("add_result", round_result, "None")
    /\ UNCHANGED <<difficulty, adaptive_difficulty, streak_count, time_limit>>

\* The fields of the MathGame
Self ==
    [difficulty |-> difficulty, adaptive_difficulty |-> adaptive_difficulty,
     results |-> results, streak_count |-> streak_count,
     total_score |-> total_score, time_limit |-> time_limit]

\* A milestone paid into total_score as it is announced
StreakUpdateWithBonus(self, is_correct) ==
    [self EXCEPT
        !.streak_count = UpdatedStreak(@, is_correct),
        !.total_score =
            IF StreakMessage(self.streak_count, is_correct) = "ANSWER STREAK"
            THEN @ + STREAK_BONUS
            ELSE @]

\* The MathGame after update_streak (lines 119-131): the only assignments
\* are to self.streak_count (lines 122 and 129)
StreakUpdate(self, is_correct) ==
    [self EXCEPT !.streak_count = UpdatedStreak(@, is_correct)]

\* update_streak (lines 115-131)
UpdateStreak(is_correct) ==
    /\ Idle
    /\ is_correct => streak_count < MaxStreak
    /\ difficulty' = StreakUpdate(Self, is_correct).difficulty
    /\ adaptive_difficulty' = StreakUpdate(Self, is_correct).adaptive_difficulty
    /\ results' = StreakUpdate(Self, is_correct).results
    /\ streak_count' = StreakUpdate(Self, is_correct).streak_count
    /\ total_score' = StreakUpdate(Self, is_correct).total_score
    /\ time_limit' = StreakUpdate(Self, is_correct).time_limit
    /\ last_call' = Call("update_streak", is_correct,
                         StreakMessage(streak_count, is_correct))

\* adjust_difficulty (lines 82-113)
AdjustDifficulty ==
    /\ Idle
    /\ difficulty' = AdjustedDifficulty(adaptive_difficulty, results, difficulty)
    /\ last_call' = Call("adjust_difficulty", difficulty,
                         DifficultyMessage(difficulty, difficulty'))
    /\ UNCHANGED <<adaptive_difficulty, results, streak_count, total_score,
                   time_limit>>

\* calculate_score (lines 61-80): reads the game, changes nothing
CalculateScoreCall(is_correct, time_taken) ==
    /\ Idle
    /\ last_call' = Call("calculate_score", <<is_correct, time_taken>>,
                         CalculateScore(is_correct, time_taken))
    /\ UNCHANGED game_vars

\* get_game_stats (lines 133-158): reads the game, changes nothing
GetGameStats ==
    /\ Idle
    /\ last_call' = Call("get_game_stats", 0, GameStats(results))
    /\ UNCHANGED game_vars

\* play_timed_challenge, lines 172-181: the session is reset, the deadline is
\* start_time + time_limit (clock counts from start_time), and the start
\* screen waits for Enter.  The call is recorded with the difficulty the
\* session starts at.
PlayTimedChallenge(start_delay) ==
    /\ pc = "idle"
    /\ results' = SessionReset.results
    /\ streak_count' = SessionReset.streak_count
    /\ total_score' = SessionReset.total_score
    /\ round_num' = 1
    /\ clock' = Min(start_delay, time_limit)
    /\ round' = NoRound
    /\ pc' = "loop"
    /\ last_call' = Call("play_timed_challenge", difficulty, "running")
    /\ UNCHANGED <<difficulty, adaptive_difficulty, time_limit, check_vars,
                   score_vars>>

\* A round still started at the deadline itself
RunningAtDeadline(now, end_time) == now <= end_time

\* time.time() < end_time (line 183)
Running(now, end_time) == now < end_time

\* while time.time() < end_time (line 183), true: the question is generated
\* at the current difficulty (line 188) and the answer is awaited.
BeginRound ==
    /\ pc = "loop"
    /\ Running(clock, time_limit)
    /\ round_num <= MaxRounds
    /\ round' = [NoRound EXCEPT !.num = round_num, !.difficulty = difficulty]
    /\ pc' = "ask"
    /\ UNCHANGED <<game_vars, round_num, clock, last_call, check_vars, score_vars>>

\* while time.time() < end_time, false: the summary (lines 233-234)
TimeUp ==
    /\ pc = "loop"
    /\ ~Running(clock, time_limit)
    /\ pc' = "idle"
    /\ last_call' = Call("play_timed_challenge", last_call.arg,
                         GameStats(results))
    /\ UNCHANGED <<game_vars, round_num, clock, round, check_vars, score_vars>>

\* No answer taken for a withdrawal too
IsSentinelOrNone(ua) == ua \in {TIME_UP, QUIT, None}

\* user_answer == "__TIME_UP__" or user_answer == "__QUIT__" (line 198)
IsSentinel(ua) == ua \in {TIME_UP, QUIT}

\* The round dropped as well when its answer comes past the deadline
AbandonsWhenLate(ua, late) == IsSentinel(ua) \/ late

\* Lines 195-199: between the answer's return and its judging the only test
\* is the one for the sentinels; the time the answer came at (late: at or
\* past the deadline) is not looked at.
Abandons(ua, late) == IsSentinel(ua)

\* get_answer_timed returned "__TIME_UP__" or "__QUIT__" after time_taken
\* seconds (lines 198-199): break, then the summary.
Withdraw(ua, time_taken) ==
    /\ pc = "ask"
    /\ Abandons(ua, clock + time_taken >= time_limit)
    /\ clock' = Min(clock + time_taken, time_limit)
    /\ round' = [round EXCEPT !.input = InputKind(ua),
                              !.time_taken = time_taken,
                              !.late = (clock + time_taken >= time_limit)]
    /\ pc' = "idle"
    /\ last_call' = Call("play_timed_challenge", last_call.arg,
                         GameStats(results))
    /\ UNCHANGED <<game_vars, round_num, check_vars, score_vars>>

\* An adjustment after every round of an adaptive game
AdjustsAfterEveryRound(adaptive, num) == adaptive

\* if self.adaptive_difficulty and round_num % 3 == 0 (line 225)
AdjustsAfter(adaptive, num) == adaptive /\ num % 3 = 0

\* Lines 207-230: the result is added, the streak updated, the result shown
\* (show_round_result waits for Enter: for no time, or with long_pause until
\* the deadline has passed), and in adaptive mode every third round adjusts
\* the difficulty.
RecordRound(kind, is_correct, time_taken, score, long_pause) ==
    /\ results' = Appended(results, RoundResult(is_correct, time_taken, score))
    /\ total_score' =
           AddedScore(total_score, RoundResult(is_correct, time_taken, score))
    /\ streak_count' = UpdatedStreak(streak_count, is_correct)
    /\ difficulty' =
           IF AdjustsAfter(adaptive_difficulty, round_num)
           THEN AdjustedDifficulty(adaptive_difficulty, results', difficulty)
           ELSE difficulty
    /\ round' = [round EXCEPT
           !.streak_used = streak_count,
           !.input = kind,
           !.correct = is_correct,
           !.time_taken = time_taken,
           !.score = score,
           !.late = (clock + time_taken >= time_limit),
           !.streak_message = StreakMessage(streak_count, is_correct),
           !.adjusted = AdjustsAfter(adaptive_difficulty, round_num),
           !.difficulty_message =
               IF AdjustsAfter(adaptive_difficulty, round_num)
               THEN DifficultyMessage(difficulty, difficulty')
               ELSE "None"]
    /\ clock' = IF long_pause THEN time_limit
                ELSE Min(clock + time_taken, time_limit)
    /\ round_num' = round_num + 1
    /\ pc' = "loop"
    /\ UNCHANGED <<adaptive_difficulty, time_limit, last_call>>

\* The round scored at the difficulty its own adjustment leaves
RoundScoreAfterAdjustment(is_correct, time_taken) ==
    ScoreOf(is_correct, time_taken,
            IF AdjustsAfter(adaptive_difficulty, round_num)
            THEN AdjustedDifficulty(adaptive_difficulty,
                     Append(results, RoundResult(is_correct, time_taken, 0)),
                     difficulty)
            ELSE difficulty,
            streak_count)

\* score = self.calculate_score(is_correct, time_taken) (line 205), which
\* reads self.difficulty before the adjustment of lines 225-226
RoundScore(is_correct, time_taken) == CalculateScore(is_correct, time_taken)

\* Lines 204-205: check_answer, then calculate_score; an exception leaving
\* check_answer leaves play_timed_challenge too.
JudgeRound(checked, kind, time_taken, long_pause) ==
    IF checked.k = "raise"
    THEN /\ pc' = "raised"
         /\ UNCHANGED <<game_vars, round_num, clock, round, last_call>>
    ELSE RecordRound(kind, checked.v, time_taken,
                     RoundScore(checked.v, time_taken), long_pause)

\* get_answer_timed returned an answer (or None) after time_taken seconds
\* (lines 192-230).
AnswerRound(ua, ca, time_taken, long_pause) ==
    /\ pc = "ask"
    /\ ~Abandons(ua, clock + time_taken >= time_limit)
    /\ JudgeRound(CheckAnswer(ua, ca), InputKind(ua), time_taken, long_pause)
    /\ UNCHANGED <<check_vars, score_vars>>

Next ==
    \/ \E c \in DifficultyChoices, l \in TimeLimits : SetupGame(c, l)
    \/ \E b \in BOOLEAN, t \in Times, sc \in CallerScores :
           AddResult(RoundResult(b, t, sc))
    \/ \E b \in BOOLEAN : UpdateStreak(b)
    \/ AdjustDifficulty
    \/ \E b \in BOOLEAN, t \in ScoreTimes : CalculateScoreCall(b, t)
    \/ GetGameStats
    \/ \E d \in StartDelays : PlayTimedChallenge(d)
    \/ BeginRound
    \/ TimeUp
    \/ \E qa \in RoundAnswers, t \in Times : Withdraw(qa[1], t)
    \/ \E qa \in RoundAnswers, t \in Times, p \in BOOLEAN :
           AnswerRound(qa[1], qa[2], t, p)

Spec == Init /\ [][Next]_vars

---------------------------------------------------------------------------
(* check_answer on its own: one call on a pair of answers                  *)

InitCheck ==
    /\ difficulty = 1
    /\ adaptive_difficulty = FALSE
    /\ results = <<>>
    /\ streak_count = 0
    /\ total_score = 0
    /\ time_limit = 60
    /\ pc = "idle"
    /\ round_num = 0
    /\ clock = 0
    /\ round = NoRound
    /\ last_call = Call("__init__", 0, "None")
    /\ \E in \in CheckInputs : user_answer = in[1] /\ correct_answer = in[2]
    /\ verdict = Pending
    /\ scores = NoManager
    /\ scores_file = NoFile

CallCheckAnswer ==
    /\ verdict = Pending
    /\ verdict' = CheckAnswer(user_answer, correct_answer)
    /\ last_call' = Call("check_answer", 0, "None")
    /\ UNCHANGED <<game_vars, loop_vars, user_answer, correct_answer,
                   score_vars>>

NextCheck == CallCheckAnswer

SpecCheck == InitCheck /\ [][NextCheck]_vars

---------------------------------------------------------------------------
(* The standalone game loop of src/main.py (main, lines 386-469), which    *)
(* keeps difficulty, adaptive_difficulty, results, streak_count and        *)
(* round_num as locals and does its own scoring, streak and adaptation.    *)

MaxMainRounds == 6

\* rounds, as entered (1 to 50 in the code)
MainRounds == {1, 3, MaxMainRounds}

\* src/main.py:204-217: the score of a correct answer, with the constants of
\* src/main.py:25-30, which have the values of those of src/game.py.  The
\* float sum is carried exactly, over the denominator
\* 10 * POINTS_SPEED_BONUS_THRESHOLD, and int() truncates it.
MainCorrectScore(time_taken, d, s) ==
    LET th == POINTS_SPEED_BONUS_THRESHOLD
        base == POINTS_BASE * POINTS_DIFFICULTY_MULTIPLIER[d] * th
        speed == IF time_taken < th
                 THEN 10 * POINTS_SPEED_BONUS * (th - time_taken)
                 ELSE 0
        streak == IF s >= STREAK_BONUS_THRESHOLD
                  THEN STREAK_BONUS * (10 + (s - STREAK_BONUS_THRESHOLD)) * th
                  ELSE 0
    IN  (base + speed + streak) \div (10 * th)

\* calculate_score(is_correct, time_taken, difficulty, streak_count)
\* (src/main.py:200-217)
MainCalculateScore(is_correct, time_taken, d, s) ==
    IF ~is_correct THEN 0 ELSE MainCorrectScore(time_taken, d, s)

\* Lines 424-433: the streak and what is printed about it
MainUpdatedStreak(s, is_correct) == IF is_correct THEN s + 1 ELSE 0

MainStreakMessage(s, is_correct) ==
    IF is_correct
    THEN IF s + 1 >= STREAK_BONUS_THRESHOLD /\ (s + 1) % STREAK_BONUS_THRESHOLD = 0
         THEN "ANSWER STREAK"
         ELSE "None"
    ELSE IF s >= STREAK_BONUS_THRESHOLD THEN "Streak broken" ELSE "None"

\* Lines 443-450: the difficulty after the decision on recent_results
MainAdjustBy(correct_count, sum_time, len, d) ==
    IF correct_count = 3 /\ sum_time < 5 * len THEN Min(3, d + 1)
    ELSE IF correct_count <= 1 THEN Max(1, d - 1)
    ELSE d

MainAdjusted(recent_results, d) ==
    MainAdjustBy(CorrectCount(recent_results), SumTime(recent_results),
                 Len(recent_results), d)

\* Lines 445-446 and 449-450: what is printed, given the difficulty the
\* decision left
MainMessageBy(correct_count, sum_time, len, new_difficulty) ==
    IF correct_count = 3 /\ sum_time < 5 * len
    THEN (IF new_difficulty > 1 THEN "increased" ELSE "None")
    ELSE IF correct_count <= 1
    THEN (IF new_difficulty < 3 THEN "adjusted" ELSE "None")
    ELSE "None"

MainDifficultyMessage(recent_results, new_difficulty) ==
    MainMessageBy(CorrectCount(recent_results), SumTime(recent_results),
                  Len(recent_results), new_difficulty)

\* The adjustment of main.py made after every round
MainAdjustsAfterEveryRound(adaptive, num) == adaptive

\* if adaptive_difficulty and round_num % 3 == 0 (src/main.py:436)
MainAdjustsAfter(adaptive, num) == adaptive /\ num % 3 = 0

\* Lines 421-450 on the locals of main: round num is played with the
\* outcome (is_correct, time_taken), its result appended, the streak
\* updated and the difficulty adjusted where it is due.
MainPassWith(st, num, is_correct, rs) ==
    [adaptive_difficulty |-> st.adaptive_difficulty,
     results |-> rs,
     streak_count |-> MainUpdatedStreak(st.streak_count, is_correct),
     difficulty |->
         IF MainAdjustsAfter(st.adaptive_difficulty, num)
         THEN MainAdjusted(Recent(rs), st.difficulty)
         ELSE st.difficulty]

MainPass(st, num, is_correct, time_taken) ==
    MainPassWith(st, num, is_correct,
        Append(st.results,
            RoundResult(is_correct, time_taken,
                MainCalculateScore(is_correct, time_taken, st.difficulty,
                                   st.streak_count))))

\* Lines 416-450: the locals of main after the rounds num to Len(outcomes)
\* have had the outcomes given, one after the other
RECURSIVE MainLoop(_, _, _)
MainLoop(outcomes, num, st) ==
    IF num > Len(outcomes) THEN st
    ELSE MainLoop(outcomes, num + 1,
                  MainPass(st, num, outcomes[num].correct,
                           outcomes[num].time_taken))

\* The locals of main
MainLocals ==
    [adaptive_difficulty |-> adaptive_difficulty, results |-> results,
     streak_count |-> streak_count, difficulty |-> difficulty]

\* Lines 397-418: the locals of main before the first round
MainStart(difficulty_choice) ==
    [adaptive_difficulty |-> ~(difficulty_choice < 4),
     results |-> <<>>,
     streak_count |-> 0,
     difficulty |-> IF difficulty_choice < 4 THEN difficulty_choice ELSE 1]

\* The program is at its menu, nothing played yet.
MainInit ==
    /\ difficulty = 1
    /\ adaptive_difficulty = FALSE
    /\ results = <<>>
    /\ streak_count = 0
    /\ total_score = 0
    /\ time_limit = 60
    /\ pc = "menu"
    /\ round_num = 0
    /\ clock = 0
    /\ round = NoRound
    /\ last_call = Call("main", <<0, 0>>, "menu")
    /\ user_answer = None
    /\ correct_answer = <<>>
    /\ verdict = Pending
    /\ scores = NoManager
    /\ scores_file = NoFile

\* Lines 391-418: the difficulty choice and the number of rounds
MainSetup(difficulty_choice, rounds) ==
    /\ pc = "menu"
    /\ difficulty' = MainStart(difficulty_choice).difficulty
    /\ adaptive_difficulty' = MainStart(difficulty_choice).adaptive_difficulty
    /\ results' = MainStart(difficulty_choice).results
    /\ streak_count' = MainStart(difficulty_choice).streak_count
    /\ round_num' = 1
    /\ round' = NoRound
    /\ pc' = "playing"
    /\ last_call' = Call("main", <<difficulty_choice, rounds>>, "playing")
    /\ UNCHANGED <<total_score, time_limit, clock, check_vars, score_vars>>

\* Lines 420-450: one pass of the for loop.  play_round (lines 220-350)
\* judges the answer (is_correct), measures time_taken and scores the round
\* with the streak as it stands; then the streak is updated and, in adaptive
\* mode after every third round, the difficulty adjusted.
MainRound(is_correct, time_taken) ==
    /\ pc = "playing"
    /\ results' = MainPass(MainLocals, round_num, is_correct, time_taken).results
    /\ streak_count' =
           MainPass(MainLocals, round_num, is_correct, time_taken).streak_count
    /\ difficulty' =
           MainPass(MainLocals, round_num, is_correct, time_taken).difficulty
    /\ round' = [NoRound EXCEPT
           !.num = round_num,
           !.difficulty = difficulty,
           !.streak_used = streak_count,
           !.input = "answer",
           !.correct = is_correct,
           !.time_taken = time_taken,
           !.score = MainCalculateScore(is_correct, time_taken, difficulty,
                                        streak_count),
           !.streak_message = MainStreakMessage(streak_count, is_correct),
           !.adjusted = MainAdjustsAfter(adaptive_difficulty, round_num),
           !.difficulty_message =
               IF MainAdjustsAfter(adaptive_difficulty, round_num)
               THEN MainDifficultyMessage(Recent(results'), difficulty')
               ELSE "None"]
    /\ round_num' = round_num + 1
    /\ pc' = IF round_num = last_call.arg[2] THEN "summary" ELSE "playing"
    /\ UNCHANGED <<adaptive_difficulty, total_score, time_limit, clock,
                   last_call, check_vars, score_vars>>

\* Lines 452-461: the summary, then play again or leave
MainSummary(play_again) ==
    /\ pc = "summary"
    /\ pc' = IF play_again THEN "menu" ELSE "exit"
    /\ UNCHANGED <<game_vars, round_num, clock, round, last_call, check_vars,
                   score_vars>>

NextMain ==
    \/ \E c \in DifficultyChoices, n \in MainRounds : MainSetup(c, n)
    \/ \E b \in BOOLEAN, t \in Times : MainRound(b, t)
    \/ \E again \in BOOLEAN : MainSummary(again)

SpecMain == MainInit /\ [][NextMain]_vars

---------------------------------------------------------------------------
(* The high-score table on its own: a HighScoreManager created with no     *)
(* scores file, and update_high_score called game after game               *)

MaxGames == 2

\* game_mode: the two modes and a name that is not one
ScoreModes == GameModes \cup {"practice"}
\* operation_type: addition, and a type outside 1 to 9
ScoreOperations == {1, 10}
\* difficulty: easy, and 4 for an adaptive game
ScoreDifficulties == {1, 4}
\* time.strftime("%Y-%m-%d %H:%M")
Dates == {"2024-05-01 10:00", "2024-05-02 10:00"}

\* A correct answer after a second at difficulty 1, and a wrong one
RightRound == RoundResult(TRUE, 1, ScoreOf(TRUE, 1, 1, 0))
WrongRound == RoundResult(FALSE, 7, ScoreOf(FALSE, 7, 1, 0))

\* stats: what get_game_stats returns for a few sessions, and one that
\* carries an average_difficulty as well
StatsInputs ==
    { GameStats(<<>>), GameStats(<<RightRound>>),
      GameStats(<<RightRound, WrongRound>>),
      [average_difficulty |-> 2] @@ GameStats(<<RightRound>>) }

\* Whether the save at line 117 and the one at line 132 went through
SaveOutcomes == {<<TRUE, TRUE>>, <<TRUE, FALSE>>, <<FALSE, FALSE>>}

\* HighScoreManager() (lines 12-14, 25-26): no file, the default scores
InitScores ==
    /\ difficulty = 1
    /\ adaptive_difficulty = FALSE
    /\ results = <<>>
    /\ streak_count = 0
    /\ total_score = 0
    /\ time_limit = 60
    /\ pc = "idle"
    /\ round_num = 0
    /\ clock = 0
    /\ round = NoRound
    /\ last_call = Call("__init__", 0, "None")
    /\ user_answer = None
    /\ correct_answer = <<>>
    /\ verdict = Pending
    /\ scores = DefaultScores
    /\ scores_file = NoFile

\* update_high_score, lines 82-134, for a game mode that is one
RecordGame(game_mode, op_name, d, stats, now, written) ==
    /\ scores' = WithGame(scores, game_mode, op_name, d, stats, now)
    /\ scores_file' =
           FileAfter(scores_file,
                     IsHighScore(stats.total_score,
                         BucketOf(scores.buckets,
                                  BucketKey(game_mode, op_name, d)).score),
                     WithBucket(scores, BucketKey(game_mode, op_name, d),
                                stats, now),
                     scores', written)

\* update_high_score(game_mode, operation_type, difficulty, stats) called
\* at the time now (lines 66-134); it returns None for an unknown mode and
\* (is_high_score, prev_high_score) otherwise.
UpdateHighScore(game_mode, operation_type, d, stats, now, written) ==
    /\ scores.stats.games_played < MaxGames
    /\ IF game_mode \notin GameModes
       THEN /\ UNCHANGED score_vars
            /\ last_call' = Call("update_high_score",
                     <<game_mode, operation_type, d, stats, now>>, "None")
       ELSE /\ RecordGame(game_mode, OperationName(operation_type),
                          BucketDifficulty(d, stats), stats, now, written)
            /\ last_call' = Call("update_high_score",
                     <<game_mode, operation_type, d, stats, now>>,
                     [is_high_score |->
                          IsHighScore(stats.total_score,
                              BucketOf(scores.buckets,
                                  BucketKey(game_mode,
                                      OperationName(operation_type),
                                      BucketDifficulty(d, stats))).score),
                      prev_high_score |->
                          BucketOf(scores.buckets,
                              BucketKey(game_mode,
                                  OperationName(operation_type),
                                  BucketDifficulty(d, stats))).score])
    /\ UNCHANGED <<game_vars, loop_vars, check_vars>>

NextScores ==
    \E m \in ScoreModes, op \in ScoreOperations, d \in ScoreDifficulties,
       st \in StatsInputs, now \in Dates, w \in SaveOutcomes :
        UpdateHighScore(m, op, d, st, now, w)

SpecScores == InitScores /\ [][NextScores]_vars

---------------------------------------------------------------------------
(* Properties                                                              *)

\* C1: after setup_game with a choice in 1..4 and any sequence of rounds,
\* add_result, update_streak and adjust_difficulty calls, difficulty is 1, 2
\* or 3; choice 4 is stored as difficulty 1 with adaptive_difficulty true.
C1_DifficultyInRange ==
    /\ difficulty \in {1, 2, 3}
    /\ (last_call.op = "setup_game" /\ last_call.arg = 4)
           => (difficulty = 1 /\ adaptive_difficulty)
    /\ (last_call.op = "setup_game" /\ last_call.arg # 4)
           => (difficulty = last_call.arg /\ ~adaptive_difficulty)

\* An adaptive game at difficulty 3 whose last three results are correct and
\* fast has just been adjusted again.
C1_Witness ==
    /\ adaptive_difficulty
    /\ difficulty = 3
    /\ last_call.op = "adjust_difficulty"
    /\ last_call.arg = 3
    /\ Len(results) >= 3
    /\ CorrectCount(Recent(results)) = 3
    /\ SumTime(Recent(results)) < 5 * 3

\* C2: in every round of play_timed_challenge the score is the one
\* calculate_score gives for the streak that includes the answer just given,
\* so the third consecutive correct answer carries the streak bonus.
C2_ScoreUsesPostIncrementStreak ==
    (pc = "loop" /\ round.input = "answer" /\ round.correct)
        => round.score = ScoreOf(TRUE, round.time_taken, round.difficulty,
                                 streak_count)

\* The streak a step of update_streak, or of a round, leaves
C3_StreakAfter(is_correct) ==
    streak_count' = IF is_correct THEN streak_count + 1 ELSE 0

\* The step is a call of update_streak.
C3_UpdateStreakStep ==
    /\ last_call'.op = "update_streak"
    /\ \/ last_call.op # "update_streak"
       \/ last_call'.arg # last_call.arg
       \/ last_call'.ret # last_call.ret
       \/ streak_count' # streak_count

\* C3: update_streak sets streak_count to 0 on an incorrect answer and adds
\* exactly 1 on a correct one, called on its own or by a round; apart from
\* the start of a session (setup_game, play_timed_challenge) nothing else
\* changes streak_count, which never grows by more than 1 nor goes negative.
C3_StreakSteps ==
    [][ /\ streak_count' >= 0
        /\ streak_count' <= streak_count + 1
        /\ C3_UpdateStreakStep => C3_StreakAfter(last_call'.arg)
        /\ (pc = "ask" /\ pc' = "loop") => C3_StreakAfter(round'.correct)
        /\ (streak_count' # streak_count)
               => \/ C3_UpdateStreakStep
                  \/ pc = "ask" /\ pc' = "loop"
                  \/ last_call'.op = "setup_game" /\ streak_count' = 0
                  \/ pc = "idle" /\ pc' = "loop" /\ streak_count' = 0
      ]_vars

\* update_streak(False) has just broken a streak of three or more.
C3_Witness ==
    /\ last_call.op = "update_streak"
    /\ last_call.arg = FALSE
    /\ last_call.ret = "Streak broken"
    /\ streak_count = 0

\* C4: calculate_score returns 0 for an incorrect answer at every time,
\* difficulty and streak; every result a round of play_timed_challenge
\* records with correct = false has score 0.
C4_IncorrectScoresZero ==
    /\ (last_call.op = "calculate_score" /\ ~last_call.arg[1])
           => last_call.ret = 0
    /\ last_call.op = "play_timed_challenge"
           => \A i \in 1..Len(results) :
                  ~results[i].correct => results[i].score = 0
    /\ round.input \in {"answer", "empty"}
           => /\ results # <<>>
              /\ results[Len(results)] =
                     RoundResult(round.correct, round.time_taken, round.score)
              /\ ~round.correct => round.score = 0

\* calculate_score(False, 0) was called on a hard game with a streak of three.
C4_Witness ==
    /\ last_call.op = "calculate_score"
    /\ last_call.arg = <<FALSE, 0>>
    /\ difficulty = 3
    /\ streak_count >= STREAK_BONUS_THRESHOLD

\* C5: total_score, accumulated by add_result, is the sum of the scores of
\* the session's results, and so is the total_score get_game_stats reports.
C5_TotalIsSumOfScores ==
    /\ total_score = SumScore(results)
    /\ last_call.op = "get_game_stats"
           => last_call.ret.total_score = total_score
    /\ (last_call.op = "play_timed_challenge" /\ pc = "idle")
           => last_call.ret.total_score = total_score

\* get_game_stats was called on a session holding a wrong result that carries
\* points and a right one.
C5_Witness ==
    /\ last_call.op = "get_game_stats"
    /\ Len(results) >= 2
    /\ \E i \in 1..Len(results) : ~results[i].correct /\ results[i].score > 0
    /\ \E i \in 1..Len(results) : results[i].correct

\* C6: check_answer returns a boolean and never raises, whatever the pair
\* (None, empty, non-numeric, multi-slash, zero denominator, inf, nan): a
\* failing parse or division ends in a verdict.
C6_NeverRaises ==
    /\ verdict.k \in {"pending", "return"}
    /\ verdict.v \in BOOLEAN

\* "inf" against a canonical int: Fraction(float("inf")) raises OverflowError,
\* which only the outer handler catches, and the verdict is False.
C6_Witness ==
    /\ user_answer = <<"i", "n", "f">>
    /\ correct_answer = <<"2">>
    /\ verdict = Return(FALSE)

\* The canonical answers written as a decimal or as a fraction
C7_DecimalOrFraction ==
    {ca \in CanonicalAnswers : Contains(ca, ".") \/ Contains(ca, "/")}

\* C7: a decimal user answer is judged equal to a decimal or fraction
\* canonical answer exactly when the two values differ by less than 0.001.
C7_DecimalTolerance ==
    (/\ verdict.k = "return"
     /\ user_answer \in DecimalStrings
     /\ correct_answer \in C7_DecimalOrFraction)
        => verdict.v = WithinTolerance(ToFloat(user_answer, TRUE).val,
                                       ToFloat(correct_answer, TRUE).val)

\* C8: a user answer with two or more '/' is a parse failure: the verdict is
\* the equality of the two trimmed strings.
C8_MultiSlashIsStringEquality ==
    (verdict.k = "return" /\ user_answer \in MultiSlashStrings)
        => verdict.v = (Strip(user_answer) = Strip(correct_answer))

\* f"{p}/{q}" of non-zero p and q
C9_Fractions == {FracStr(p, q) : p \in NonZero, q \in NonZero}

\* The two ints of an f"{p}/{q}"
C9_Num(s) == PyInt(Split(s, "/")[1]).val
C9_Den(s) == PyInt(Split(s, "/")[2]).val

\* C9: for non-zero p, q, r, check_answer("p/q", "(p*r)/(q*r)") is true; two
\* fraction strings are judged by a.num * b.den = b.num * a.den, reduced or
\* not, and those of different rationals are judged unequal.
C9_ExactRationalEquality ==
    (/\ verdict.k = "return"
     /\ user_answer \in C9_Fractions
     /\ correct_answer \in C9_Fractions \cup ScaledFractionStrings)
        => verdict.v = (C9_Num(user_answer) * C9_Den(correct_answer)
                            = C9_Num(correct_answer) * C9_Den(user_answer))

\* "1/2" was judged correct against "-2/-4".
C9_Witness ==
    /\ user_answer = FracStr(1, 2)
    /\ correct_answer = FracStr(-2, -4)
    /\ verdict = Return(TRUE)

\* f"{n}/0"
C10_ZeroDenominators == {FracStr(n, 0) : n \in Ints}

\* The canonical answers, and the fractions of non-zero ints
C10_ValidAnswers == CanonicalAnswers \cup C9_Fractions \cup ScaledFractionStrings

\* C10: "n/0" is judged incorrect against every valid number or fraction,
\* without raising, exactly as the unparsable "x" is.
C10_ZeroDenominatorIsIncorrect ==
    (/\ verdict.k # "pending"
     /\ user_answer \in C10_ZeroDenominators
     /\ correct_answer \in C10_ValidAnswers)
        => /\ verdict = Return(FALSE)
           /\ verdict = CheckAnswer(<<"x">>, correct_answer)

\* "1/0" was judged against the canonical "1/2" and against the canonical "1".
C10_Witness ==
    /\ user_answer = FracStr(1, 0)
    /\ correct_answer \in {FracStr(1, 2), IntStr(1)}
    /\ verdict = Return(FALSE)

\* str(a) of the integers of the input families
C11_IntStrings == BigIntStrings \cup {IntStr(n) : n \in Ints}

\* C11: for all integers a and b, check_answer(str(a), str(a)) is true and
\* check_answer(str(a), str(b)) is false when a differs from b (str(a) and
\* str(b) are the same string exactly when a = b).
C11_IntegerEquality ==
    (/\ verdict.k = "return"
     /\ user_answer \in C11_IntStrings
     /\ correct_answer \in C11_IntStrings)
        => verdict.v = (user_answer = correct_answer)

\* Decimal strings, and fraction strings of ints with a non-zero denominator
C12_Decimals == DecimalStrings \cup {ca \in CanonicalAnswers : Contains(ca, ".")}
C12_Fractions ==
    C9_Fractions \cup ScaledFractionStrings
    \cup {ca \in CanonicalAnswers : Contains(ca, "/")}
    \cup { <<"1", "/", "1", "0">>, <<"2", "/", "2", "0">> }

\* The decimal dec and the fraction frac denote the same rational.
C12_SameValue(dec, frac) ==
    PyFloat(dec).val.num * C9_Den(frac) = C9_Num(frac) * PyFloat(dec).val.den

\* C12: a decimal string and a fraction string of exactly the same value are
\* judged equal, whichever is the user answer; "0.51" against "1/2" is
\* judged unequal.
C12_DecimalEqualsFraction ==
    verdict.k = "return" =>
        /\ (/\ user_answer \in C12_Decimals
            /\ correct_answer \in C12_Fractions
            /\ C12_SameValue(user_answer, correct_answer)) => verdict.v
        /\ (/\ user_answer \in C12_Fractions
            /\ correct_answer \in C12_Decimals
            /\ C12_SameValue(correct_answer, user_answer)) => verdict.v
        /\ (/\ user_answer = <<"0", ".", "5", "1">>
            /\ correct_answer = FracStr(1, 2)) => ~verdict.v

\* floor(100*m[d] + speed + streak) with m = [1, 1.5, 2.5],
\* speed = 50*(5 - t)/5 under 5 seconds, streak = 25*(1 + 0.1*(s - 3)) from a
\* streak of 3; the sum is taken in tenths.
C13_Floor(t, d, s) ==
    (100 * <<10, 15, 25>>[d]
       + (IF t < 5 THEN 100 * (5 - t) ELSE 0)
       + (IF s >= 3 THEN 25 * (10 + (s - 3)) ELSE 0)) \div 10

\* C13: for a correct answer calculate_score returns
\* floor(100*m[d] + speed + streak), called on its own or by a round; at
\* d = 1, s = 0 it is 100 at t = 10 and 150 at t = 0; it is never negative.
C13_ScoreFormula ==
    /\ (last_call.op = "calculate_score" /\ last_call.arg[1])
           => /\ last_call.ret =
                     C13_Floor(last_call.arg[2], difficulty, streak_count)
              /\ last_call.ret >= 0
              /\ (difficulty = 1 /\ streak_count = 0 /\ last_call.arg[2] = 10)
                     => last_call.ret = 100
              /\ (difficulty = 1 /\ streak_count = 0 /\ last_call.arg[2] = 0)
                     => last_call.ret = 150
    /\ (round.input \in {"answer", "empty"} /\ round.correct)
           => /\ round.score = C13_Floor(round.time_taken, round.difficulty,
                                         round.streak_used)
              /\ round.score >= 0

\* A round answered correctly after 1 second at difficulty 2 on a streak of
\* three already counted: 150 + 40 + 25.
C13_Witness ==
    /\ round.input = "answer"
    /\ round.correct
    /\ round.time_taken = 1
    /\ round.difficulty = 2
    /\ round.streak_used = 3
    /\ round.score = 215

\* Of the last 3 results: how many are correct, and the sum of their times
C14_LastCorrect(rs) ==
    Cardinality({i \in (Len(rs) - 2)..Len(rs) : rs[i].correct})
C14_LastTime(rs) ==
    rs[Len(rs) - 2].time_taken + rs[Len(rs) - 1].time_taken
        + rs[Len(rs)].time_taken

\* min(3, d+1) when all 3 are correct with a mean time below 5.0, max(1, d-1)
\* when at most 1 is correct, d otherwise
C14_Expected(rs, d) ==
    IF C14_LastCorrect(rs) = 3 /\ C14_LastTime(rs) < 3 * 5
    THEN (IF d + 1 > 3 THEN 3 ELSE d + 1)
    ELSE IF C14_LastCorrect(rs) <= 1 THEN (IF d - 1 < 1 THEN 1 ELSE d - 1)
    ELSE d

\* C14: adjust_difficulty in adaptive mode with at least 3 results looks at
\* exactly the last 3 and sets difficulty to min(3, d+1), max(1, d-1) or d as
\* above, called on its own or at the end of a third round.
C14_AdjustmentRule ==
    /\ (/\ last_call.op = "adjust_difficulty"
        /\ adaptive_difficulty
        /\ Len(results) >= 3)
           => difficulty = C14_Expected(results, last_call.arg)
    /\ (pc = "loop" /\ round.adjusted)
           => /\ Len(results) >= 3
              /\ difficulty = C14_Expected(results, round.difficulty)

\* adjust_difficulty at difficulty 2 on four results, the last three being
\* wrong, wrong, correct, and the first correct: difficulty is now 1.
C14_Witness ==
    /\ last_call.op = "adjust_difficulty"
    /\ last_call.arg = 2
    /\ adaptive_difficulty
    /\ Len(results) = 4
    /\ results[1].correct
    /\ ~results[2].correct /\ ~results[3].correct /\ results[4].correct
    /\ difficulty = 1

\* The message msg fits the change of difficulty from old to new.
C15_MessageFits(msg, old, new) ==
    /\ (msg # "None") <=> (new # old)
    /\ (msg = "increased") <=> (new > old)
    /\ (msg = "adjusted") <=> (new < old)

\* C15: adjust_difficulty returns a message if and only if the stored
\* difficulty differs from its value before the call (none for an increase
\* window at 3 or a decrease window at 1), and the message reports an
\* increase exactly when the new difficulty is higher.
C15_MessageIffChanged ==
    /\ last_call.op = "adjust_difficulty"
           => C15_MessageFits(last_call.ret, last_call.arg, difficulty)
    /\ (pc = "loop" /\ round.adjusted)
           => C15_MessageFits(round.difficulty_message, round.difficulty,
                              difficulty)
    /\ (pc = "loop" /\ ~round.adjusted) => round.difficulty_message = "None"

\* adjust_difficulty at difficulty 1 on a window with at most one correct
\* result: nothing changes and nothing is returned.
C15_Witness ==
    /\ last_call.op = "adjust_difficulty"
    /\ last_call.arg = 1
    /\ last_call.ret = "None"
    /\ adaptive_difficulty
    /\ difficulty = 1
    /\ Len(results) >= 3
    /\ C14_LastCorrect(results) <= 1

\* C16: in the loop of main.py a difficulty-change message is emitted only
\* when the difficulty after the adjustment differs from its value before:
\* none for an increase window at 3 nor for a decrease window at 1.
C16_MainMessageOnlyOnChange ==
    (round.adjusted /\ round.difficulty_message # "None")
        => difficulty # round.difficulty

\* C17: during play_timed_challenge the difficulty changes only in the step
\* that completes a round whose number is a multiple of 3, and only in
\* adaptive mode; the decision is the one on the last 3 results, which are
\* the 3 rounds just completed (results holds one result per completed
\* round); with adaptive mode off the difficulty stays as it is.
C17_AdjustmentOnlyAtThirdRounds ==
    [][ /\ (pc = "idle" /\ pc' = "loop") => difficulty' = difficulty
        /\ (pc \in {"loop", "ask"})
               => /\ adaptive_difficulty' = adaptive_difficulty
                  /\ ~adaptive_difficulty => difficulty' = difficulty
                  /\ (pc = "ask" /\ pc' = "loop") => Len(results') = round_num
                  /\ difficulty' # difficulty
                         => /\ pc = "ask" /\ pc' = "loop"
                            /\ adaptive_difficulty
                            /\ round_num % 3 = 0
                            /\ difficulty' = C14_Expected(results', difficulty)
      ]_vars

\* The third round of an adaptive session has just changed the difficulty.
C17_Witness ==
    /\ pc = "loop"
    /\ round.num = 3
    /\ round.adjusted
    /\ adaptive_difficulty
    /\ difficulty # round.difficulty

\* C18: adjust_difficulty called with fewer than 3 results returns no
\* message and changes no field; it does not raise.
C18_InsufficientWindow ==
    [][ (last_call'.op = "adjust_difficulty" /\ Len(results) < 3)
            => /\ UNCHANGED game_vars
               /\ last_call'.arg = difficulty
               /\ last_call'.ret = "None"
               /\ pc' = "idle"
      ]_vars

\* adjust_difficulty was called on an adaptive game at difficulty 2 holding a
\* single, wrong, result.
C18_Witness ==
    /\ last_call.op = "adjust_difficulty"
    /\ last_call.arg = 2
    /\ last_call.ret = "None"
    /\ adaptive_difficulty
    /\ difficulty = 2
    /\ Len(results) = 1
    /\ ~results[1].correct

\* The message for an answer given at a streak of prior
C19_Expected(prior, is_correct) ==
    IF is_correct /\ (prior + 1) \in {3 * k : k \in 1..(prior + 1)}
    THEN "ANSWER STREAK"
    ELSE IF ~is_correct /\ prior >= 3 THEN "Streak broken"
    ELSE "None"

\* C19: update_streak returns the milestone message exactly when the answer
\* is correct and the new streak is a positive multiple of 3 (3, 6, ..., not
\* 4 or 5), the 'streak broken' message exactly when the answer is incorrect
\* and the prior streak was at least 3, and no message otherwise; called on
\* its own or by a round.
C19_StreakMessages ==
    [][ /\ C3_UpdateStreakStep
            => last_call'.ret = C19_Expected(streak_count, last_call'.arg)
        /\ (pc = "ask" /\ pc' = "loop")
            => round'.streak_message =
                   C19_Expected(streak_count, round'.correct)
      ]_vars

\* update_streak(True) has just brought the streak to 6.
C19_Witness ==
    /\ last_call.op = "update_streak"
    /\ last_call.arg = TRUE
    /\ last_call.ret = "ANSWER STREAK"
    /\ streak_count = 6

\* C20: when the player withdraws from a round (the input layer returns the
\* quit or the no-answer sentinel), the round is recorded as incorrect with
\* the time measured.
C20_WithdrawalIsIncorrectRound ==
    round.input \in {"quit", "empty"}
        => /\ Len(results) = round.num
           /\ results[Len(results)] = RoundResult(FALSE, round.time_taken, 0)

\* C20, as the code has it: no answer (None, an empty line) is recorded as an
\* incorrect round with score 0 and the time measured, and the session goes
\* on; "__QUIT__" (like "__TIME_UP__") abandons the round: nothing is
\* recorded and the session ends with its summary.
C20_NoAnswerRecordedQuitAbandons ==
    /\ round.input = "empty"
           => /\ Len(results) = round.num
              /\ results[Len(results)] =
                     RoundResult(FALSE, round.time_taken, 0)
              /\ ~round.correct
              /\ pc = "idle" \/ round_num = round.num + 1
    /\ round.input \in {"quit", "time_up"}
           => /\ Len(results) = round.num - 1
              /\ pc = "idle"
              /\ last_call.op = "play_timed_challenge"
              /\ last_call.ret = GameStats(results)

\* The second round got no answer after 7 seconds and the session goes on.
C20_Witness ==
    /\ round.input = "empty"
    /\ round.num = 2
    /\ round.time_taken = 7
    /\ pc = "loop"
    /\ Len(results) = 2

\* C21: in play_timed_challenge the deadline start + time_limit is checked
\* before each round: once it has passed no round is started (no question
\* generated, no answer asked for) and the session goes to its summary with
\* the game as it is; a round is started only from that check, before the
\* deadline.
C21_NoRoundAfterDeadline ==
    [][ /\ (pc = "loop" /\ clock >= time_limit)
            => /\ pc' = "idle"
               /\ last_call'.op = "play_timed_challenge"
               /\ last_call'.ret = GameStats(results)
               /\ round' = round
               /\ UNCHANGED game_vars
        /\ (pc # "ask" /\ pc' = "ask")
            => /\ pc = "loop"
               /\ clock < time_limit
               /\ round'.num = round_num
               /\ UNCHANGED game_vars
      ]_vars

\* The deadline passed while the result of the second round was shown: the
\* session ended with its summary and no third round.
C21_Witness ==
    /\ pc = "idle"
    /\ last_call.op = "play_timed_challenge"
    /\ clock >= time_limit
    /\ round.num = 2
    /\ round.input = "answer"
    /\ ~round.late
    /\ Len(results) = 2

\* C22: a round of play_timed_challenge started before the deadline is
\* judged whenever its answer comes, past the deadline too: it is checked,
\* scored by calculate_score, appended to results and counted in the streak.
\* Only the caller's "__TIME_UP__" or "__QUIT__" ends a round without a
\* result.
C22_LateRoundIsJudged ==
    [][ (pc = "ask")
            => \/ /\ round'.input \in {"answer", "empty"}
                  /\ pc' = "loop"
                  /\ round'.score = ScoreOf(round'.correct, round'.time_taken,
                                            difficulty, streak_count)
                  /\ results' = Append(results,
                         RoundResult(round'.correct, round'.time_taken,
                                     round'.score))
                  /\ total_score' = total_score + round'.score
                  /\ C3_StreakAfter(round'.correct)
                  /\ round_num' = round_num + 1
               \/ /\ round'.input \in {"quit", "time_up"}
                  /\ pc' = "idle"
                  /\ UNCHANGED game_vars
      ]_vars

\* The second round, started before the deadline, was answered correctly
\* after it: it is the second result, it scored and the streak counts it.
C22_Witness ==
    /\ pc = "loop"
    /\ round.num = 2
    /\ round.late
    /\ round.input = "answer"
    /\ round.correct
    /\ round.score > 0
    /\ Len(results) = 2
    /\ results[2] = RoundResult(TRUE, round.time_taken, round.score)
    /\ streak_count = 2

\* C23: while play_timed_challenge runs, results holds one result per round
\* played: its length is round_num - 1 before each round, while the answer
\* is awaited and on exit, where the summary counts as many rounds; an
\* answered round appends exactly its own result after the earlier ones,
\* and no other step of the session touches results.
C23_OneResultPerRound ==
    [][ /\ (pc' \in {"loop", "ask"}) => Len(results') = round_num' - 1
        /\ (pc \in {"loop", "ask"} /\ pc' = "idle")
            => /\ Len(results') = round_num' - 1
               /\ last_call'.ret.total_rounds = Len(results')
        /\ (pc \in {"loop", "ask"})
            => IF pc = "ask" /\ pc' = "loop"
               THEN /\ Len(results') = Len(results) + 1
                    /\ SubSeq(results', 1, Len(results)) = results
                    /\ results'[Len(results')] =
                           RoundResult(round'.correct, round'.time_taken,
                                       round'.score)
               ELSE results' = results
      ]_vars

\* Three rounds played, right, wrong, right: three results in that order,
\* before the fourth round.
C23_Witness ==
    /\ pc = "loop"
    /\ round_num = 4
    /\ Len(results) = 3
    /\ results[1].correct
    /\ ~results[2].correct
    /\ results[3].correct
    /\ results[1].time_taken # results[3].time_taken

\* C24: every session starts from a reset state: after setup_game, and in
\* play_timed_challenge before its first round is answered, results is
\* empty, streak_count is 0 and total_score is 0, whatever the session
\* before left behind.
C24_SessionStartsReset ==
    (\/ last_call.op = "setup_game"
     \/ pc \in {"loop", "ask"} /\ round_num = 1)
        => /\ results = <<>>
           /\ streak_count = 0
           /\ total_score = 0

\* play_timed_challenge has just started on an adaptive game that an earlier
\* session, with its results, had brought to difficulty 3.
C24_Witness ==
    /\ pc = "loop"
    /\ round_num = 1
    /\ last_call.op = "play_timed_challenge"
    /\ adaptive_difficulty
    /\ difficulty = 3
    /\ results = <<>>

\* The bucket a call of update_high_score is about
C25_Key(arg) ==
    BucketKey(arg[1], OperationName(arg[2]), BucketDifficulty(arg[3], arg[4]))

\* C25: update_high_score overwrites the bucket of its mode, operation and
\* difficulty only when stats['total_score'] is strictly greater than the
\* score stored there, and then with the new score, date, accuracy and
\* avg_time; an equal or lower score leaves the four as they are; no other
\* bucket is touched, and no bucket's score ever decreases.
C25_OnlyHigherScoreOverwrites ==
    [][ /\ \A k \in DOMAIN scores.buckets :
               /\ k \in DOMAIN scores'.buckets
               /\ scores'.buckets[k].score >= scores.buckets[k].score
        /\ (last_call'.op = "update_high_score"
                /\ last_call'.arg[1] \in GameModes)
            => /\ \A k \in DOMAIN scores.buckets \ {C25_Key(last_call'.arg)} :
                      scores'.buckets[k] = scores.buckets[k]
               /\ scores'.buckets[C25_Key(last_call'.arg)] =
                      IF last_call'.arg[4].total_score >
                             BucketOf(scores.buckets,
                                      C25_Key(last_call'.arg)).score
                      THEN [score |-> last_call'.arg[4].total_score,
                            date |-> last_call'.arg[5],
                            accuracy |-> last_call'.arg[4].accuracy,
                            avg_time |-> last_call'.arg[4].avg_time]
                      ELSE BucketOf(scores.buckets, C25_Key(last_call'.arg))
        /\ (last_call'.op = "update_high_score"
                /\ last_call'.arg[1] \notin GameModes)
            => scores' = scores
      ]_vars

\* update_high_score was called with a total_score equal to the stored one,
\* at another time and with another accuracy: the bucket is as it was.
C25_Witness ==
    /\ last_call.op = "update_high_score"
    /\ last_call.arg[1] \in GameModes
    /\ last_call.arg[4].total_score > 0
    /\ ~last_call.ret.is_high_score
    /\ last_call.ret.prev_high_score = last_call.arg[4].total_score
    /\ scores.buckets[C25_Key(last_call.arg)].score =
           last_call.arg[4].total_score
    /\ scores.buckets[C25_Key(last_call.arg)].date # last_call.arg[5]
    /\ scores.buckets[C25_Key(last_call.arg)].accuracy #
           last_call.arg[4].accuracy

\* C26: get_game_stats on a session with no results returns total_rounds,
\* correct_count, accuracy, avg_time and total_score all 0; in no state does
\* it divide by zero; and a call leaves the session as it is.
C26_EmptyStatsAndNoEffect ==
    [][ (last_call'.op = "get_game_stats")
            => /\ UNCHANGED game_vars
               /\ pc' = pc
               /\ last_call'.ret.accuracy[2] # 0
               /\ last_call'.ret.avg_time[2] # 0
               /\ last_call'.ret.total_rounds = Len(results)
               /\ (results = <<>>)
                      => last_call'.ret =
                             [total_rounds |-> 0, correct_count |-> 0,
                              accuracy |-> <<0, 1>>, avg_time |-> <<0, 1>>,
                              total_score |-> 0]
      ]_vars

\* get_game_stats was called on a game with a streak and no results.
C26_Witness ==
    /\ last_call.op = "get_game_stats"
    /\ results = <<>>
    /\ streak_count > 0
    /\ last_call.ret.total_rounds = 0
    /\ last_call.ret.accuracy = <<0, 1>>

\* C27: update_streak changes streak_count only: results with every result
\* stored in it, total_score, difficulty and the other fields are as
\* before, whatever message it returns; in a round the result is stored with
\* the score calculate_score gave, whatever update_streak then announces.
C27_UpdateStreakFrame ==
    [][ /\ (last_call'.op = "update_streak")
            => /\ results' = results
               /\ total_score' = total_score
               /\ difficulty' = difficulty
               /\ adaptive_difficulty' = adaptive_difficulty
               /\ time_limit' = time_limit
               /\ pc' = pc
        /\ (pc = "ask" /\ pc' = "loop")
            => /\ SubSeq(results', 1, Len(results)) = results
               /\ results'[Len(results')].score =
                      ScoreOf(round'.correct, round'.time_taken, difficulty,
                              streak_count)
               /\ total_score' = total_score + results'[Len(results')].score
      ]_vars

\* update_streak(True) announced a milestone on a game holding results with
\* points.
C27_Witness ==
    /\ last_call.op = "update_streak"
    /\ last_call.arg = TRUE
    /\ last_call.ret = "ANSWER STREAK"
    /\ Len(results) >= 2
    /\ total_score > 0
    /\ total_score = SumScore(results)
    /\ difficulty = 2

\* C28: in play_timed_challenge the difficulty does not change between the
\* start of a round and its scoring: the question of round k is generated
\* and its score computed at the difficulty in force when the round
\* started, and a change decided after round k is the difficulty of round
\* k+1.
C28_ChangeTakesEffectNextRound ==
    [][ /\ (pc = "loop" /\ pc' = "ask")
            => /\ round'.difficulty = difficulty
               /\ difficulty' = difficulty
        /\ (pc = "ask") => round.difficulty = difficulty
        /\ (pc = "ask" /\ pc' = "loop")
            => /\ round'.difficulty = round.difficulty
               /\ round'.num = round.num
               /\ round'.score =
                      ScoreOf(round'.correct, round'.time_taken,
                              round.difficulty, streak_count)
               /\ results'[Len(results')].score = round'.score
      ]_vars

\* The third round of an adaptive session, asked and scored at difficulty 1,
\* raised the difficulty, and the fourth round is asked at difficulty 2.
C28_Witness ==
    /\ pc = "ask"
    /\ round.num = 4
    /\ round.difficulty = 2
    /\ adaptive_difficulty
    /\ Len(results) = 3
    /\ results[3].correct
    /\ results[3].score = ScoreOf(TRUE, results[3].time_taken, 1, 2)
    /\ results[3].score # ScoreOf(TRUE, results[3].time_taken, 2, 2)

\* The number of consecutive correct results at the end of rs
RECURSIVE C29_TrailingCorrect(_)
C29_TrailingCorrect(rs) ==
    IF rs = <<>> \/ ~rs[Len(rs)].correct THEN 0
    ELSE 1 + C29_TrailingCorrect(SubSeq(rs, 1, Len(rs) - 1))

\* C29: at every round boundary of play_timed_challenge (before each round,
\* while its answer is awaited, and at the summary) streak_count is the
\* number of consecutive correct results at the end of results: 0 when
\* results is empty or its last result is incorrect.
C29_StreakIsTrailingCorrect ==
    (\/ pc \in {"loop", "ask"}
     \/ pc = "idle" /\ last_call.op = "play_timed_challenge")
        => /\ streak_count = C29_TrailingCorrect(results)
           /\ (results = <<>> \/ ~results[Len(results)].correct)
                  => streak_count = 0

\* Four rounds played, right, wrong, right, right: the streak is 2.
C29_Witness ==
    /\ pc = "loop"
    /\ Len(results) = 4
    /\ results[1].correct
    /\ ~results[2].correct
    /\ results[3].correct
    /\ results[4].correct
    /\ streak_count = 2

\* C30: for the same sequence of round outcomes (correct flag and time
\* taken) in adaptive mode starting at difficulty 1, the loop of main.py and
\* the MathGame driven by play_timed_challenge agree after every round: on
\* the score of each round, on the streak count and on the difficulty.
\* The loop of main.py run on the outcomes of the session's rounds ends
\* with the session's results, streak_count and difficulty.
C30_MainAgreesWithGame ==
    (/\ last_call.op = "play_timed_challenge"
     /\ adaptive_difficulty
     /\ last_call.arg = 1)
        => MainLoop(results, 1, MainStart(4)) =
               [adaptive_difficulty |-> TRUE, results |-> results,
                streak_count |-> streak_count, difficulty |-> difficulty]

\* An adaptive session started at difficulty 1 has played four rounds, all
\* answered correctly; the third raised the difficulty and the fourth was
\* scored at difficulty 2 with the streak bonus.
C30_Witness ==
    /\ last_call.op = "play_timed_challenge"
    /\ last_call.arg = 1
    /\ adaptive_difficulty
    /\ pc = "loop"
    /\ Len(results) = 4
    /\ streak_count = 4
    /\ difficulty = 2
    /\ results[4].score = ScoreOf(TRUE, results[4].time_taken, 2, 3)
    /\ results[4].score > results[3].score

====
